---- MODULE Spec2Model ----
(***************************************************************************)
(* Ownership and state-transition model of the codec Context, the Decoder  *)
(* and Encoder wrappers, the audio Frame and the send/receive protocol of  *)
(* the rust-ffmpeg binding.  The native library is modelled by             *)
(* nondeterministic return codes and by the effect each call has on the    *)
(* native block.                                                           *)
(***************************************************************************)
EXTENDS Integers, Sequences, FiniteSets, TLC

\* ------------------------------------------------------------------ bounds
MaxCtx == 1

MaxFrames == 2

MaxSamples == 1

MaxSend == 2

MaxBurst == 2

MaxStreams == 2

MaxPackets == 2

MaxReads == 3

\* the width of c_int in the model, in bits: 32 in the build
CIntBits == 3

\* the width of usize in the model, in bits: 64 in the build
UsizeBits == 4

\* ------------------------------------------------------- native vocabulary
\* media::Type (AVMediaType)
Media == {"Unknown", "Video", "Audio", "Data", "Subtitle"}

\* the media a specialised wrapper can stand for
Special == {"Video", "Audio", "Subtitle"}

\* codec::Id values used by the model
Ids == {"None", "MP3", "H264", "AAC"}

\* native codec descriptors: MP3 and H264 decode only, AAC encodes only
Codecs ==
    { [id |-> "MP3",  medium |-> "Audio", dec |-> TRUE,  enc |-> FALSE],
      [id |-> "H264", medium |-> "Video", dec |-> TRUE,  enc |-> FALSE],
      [id |-> "AAC",  medium |-> "Audio", dec |-> FALSE, enc |-> TRUE] }

NoCodec == [id |-> "None", medium |-> "Unknown", dec |-> FALSE, enc |-> FALSE]

\* codec parameter sets handed to set_parameters
Params ==
    { [id |-> "MP3",  medium |-> "Audio"],
      [id |-> "H264", medium |-> "Video"] }

\* what a block handed to Context::wrap may hold
WrapParams ==
    Params \cup { [id |-> "None", medium |-> "Data"] }

\* native error codes (negative) by name
AVERROR ==
    [ EOF |-> -1, EAGAIN |-> -2, INVALIDDATA |-> -3,
      DECODER_NOT_FOUND |-> -4, ENCODER_NOT_FOUND |-> -5, ENOMEM |-> -6 ]

\* what a native call of the open/pause/play/seek family may return
OpenRets == {AVERROR.INVALIDDATA, 0, 1}

\* option keys of a Dictionary
Keys == {"threads", "bogus"}

Ctxs == 1 .. MaxCtx

\* the place of one more handle: the clone of a context
CloneSlot == MaxCtx + 1

Slots == Ctxs \cup {CloneSlot}

\* --------------------------------------------------------------- the state
VARIABLES
    holder,         \* per context: the wrapper type that holds the handle
    owner,          \* per context: Context.owner, "None" or "Some"
    block,          \* per context: the native AVCodecContext block
    released,       \* per context: times avcodec_free_context ran by drop
    rcStrong,       \* strong count of the shared owner token (Rc)
    tokenOutside,   \* the creator of the token still holds its own Rc
    tokenReleased,  \* times the owner behind the token was released
    last,           \* the last operation: its inputs, native call, result
    fr,             \* per frame slot: the audio frame held there
    pipe,           \* the encoder pipeline and the loop that drives it
    inp,            \* the format Input, its packet iterator and its source
    thr             \* per context: the drop of its handle on a thread of
                    \* its own, as far as it has got

vars == << holder, owner, block, released, rcStrong, tokenOutside,
           tokenReleased, last, fr, pipe, inp, thr >>

\* the state of the codec contexts and of their owner token
ctxVars == << holder, owner, block, released, rcStrong, tokenOutside,
             tokenReleased, thr >>

\* the state the context operations leave alone
others == << fr, pipe, inp, thr >>

Live == {"Context", "Decoder", "Opened", "DecAudio", "DecVideo",
         "DecSubtitle", "Encoder", "EncVideo", "EncAudio", "EncSubtitle",
         "AudioEncoder"}

Holders == Live \cup {"none", "dropped"}

\* the threading fields of a block nothing has set: no thread type asked
\* for, none active, a count of zero, callbacks not thread safe
NoThreading ==
    [thread_type |-> 0, active_thread_type |-> 0, thread_count |-> 0,
     thread_safe_callbacks |-> 0]

\* the block avcodec_alloc_context3(NULL) returns
FreshBlock ==
    [alive |-> TRUE, medium |-> "Unknown", id |-> "None", opened |-> FALSE,
     thread |-> NoThreading]

\* no block: not allocated yet, or freed
NoBlock ==
    [alive |-> FALSE, medium |-> "Unknown", id |-> "None", opened |-> FALSE,
     thread |-> NoThreading]

\* Error::from(code): the single translation of a negative native code
ErrorFrom(e) ==
    CASE e = AVERROR.EOF               -> "Eof"
      [] e = AVERROR.EAGAIN            -> "TryAgain"
      [] e = AVERROR.INVALIDDATA       -> "InvalidData"
      [] e = AVERROR.DECODER_NOT_FOUND -> "DecoderNotFound"
      [] e = AVERROR.ENCODER_NOT_FOUND -> "EncoderNotFound"
      [] OTHER                         -> "Other"

Errors == {"Eof", "TryAgain", "InvalidData", "DecoderNotFound",
           "EncoderNotFound", "Other"}

NoOp ==
    [ op |-> "none", c |-> 0, called |-> 0, ret |-> 0, res |-> "Ok",
      dirOk |-> TRUE, before |-> "Unknown", want |-> "Unknown",
      after |-> "Unknown", reopen |-> FALSE, left |-> {}, back |-> {},
      id |-> "None", desc |-> "None",
      elem |-> [kind |-> "None", arity |-> 0], index |-> 0,
      view |-> "none", len |-> 0, src |-> 0, uses |-> << >>,
      ts |-> 0, start |-> << >>, end |-> << >>,
      args |-> [stream |-> 0, min |-> 0, ts |-> 0, max |-> 0, flags |-> 0],
      prev |-> FALSE,
      dict |-> [exists |-> FALSE, owned |-> FALSE, ptr |-> "null",
                tmp |-> FALSE, freed |-> [given |-> 0, tmp |-> 0]],
      config |-> [kind |-> "None", count |-> 0, safe |-> FALSE],
      got |-> [kind |-> "None", count |-> 0, safe |-> FALSE],
      active |-> 0, afterSet |-> FALSE ]

Op(name, c) == [NoOp EXCEPT !.op = name, !.c = c]

\* ---------------------------------------------------------- drop of Context
\* a drop that never frees the block
FreesOnDropNever(o) == FALSE

\* a drop that frees the block whatever the owner field holds
FreesOnDropAlways(o) == TRUE

\* impl Drop for Context: the block is freed iff there is no owner token
FreesOnDrop(o) == o = "None"

\* the handle of c is destroyed while its block reads b: Drop::drop runs,
\* then the owner field is dropped, which gives up one strong count
DropEffects(c, b) ==
    /\ holder' = [holder EXCEPT ![c] = "dropped"]
    /\ block' = [block EXCEPT ![c] =
                    IF FreesOnDrop(owner[c]) THEN NoBlock ELSE b]
    /\ released' = [released EXCEPT ![c] =
                       IF FreesOnDrop(owner[c]) THEN @ + 1 ELSE @]
    /\ rcStrong' = IF owner[c] = "Some" THEN rcStrong - 1 ELSE rcStrong
    /\ tokenReleased' =
           IF owner[c] = "Some" /\ rcStrong = 1
           THEN tokenReleased + 1 ELSE tokenReleased

\* a move that runs the destructor of the handle it moves from
MoveEffectsReleasing(c, h, b) ==
    /\ holder' = [holder EXCEPT ![c] = h]
    /\ block' = [block EXCEPT ![c] = IF FreesOnDrop(owner[c]) THEN NoBlock
                                     ELSE b]
    /\ released' = [released EXCEPT ![c] =
                       IF FreesOnDrop(owner[c]) THEN @ + 1 ELSE @]
    /\ UNCHANGED << rcStrong, tokenReleased >>

\* the handle of c moves into the wrapper h, its block reading b
MoveEffects(c, h, b) ==
    /\ holder' = [holder EXCEPT ![c] = h]
    /\ block' = [block EXCEPT ![c] = b]
    /\ UNCHANGED << released, rcStrong, tokenReleased >>

\* a consuming operation ends: Ok moves the handle into wrapper h, Err drops
\* self
Finish(c, res, h, b) ==
    IF res = "Ok"
    THEN MoveEffects(c, h, b)
    ELSE DropEffects(c, b)

\* ------------------------------------------------------------- construction
\* Context::new()
New(c) ==
    /\ holder[c] = "none"
    /\ holder' = [holder EXCEPT ![c] = "Context"]
    /\ owner' = [owner EXCEPT ![c] = "None"]
    /\ block' = [block EXCEPT ![c] = FreshBlock]
    /\ last' = Op("new", c)
    /\ UNCHANGED << released, rcStrong, tokenOutside, tokenReleased >>
    /\ UNCHANGED others

\* Context::wrap(ptr, owner): the block comes from elsewhere, with the medium
\* and id it has there; Some(owner) is a clone of a live token
Wrap(c, o, p) ==
    /\ holder[c] = "none"
    /\ o = "Some" => rcStrong > 0
    /\ holder' = [holder EXCEPT ![c] = "Context"]
    /\ owner' = [owner EXCEPT ![c] = o]
    /\ block' = [block EXCEPT ![c] =
                    [FreshBlock EXCEPT !.medium = p.medium, !.id = p.id]]
    /\ rcStrong' = IF o = "Some" THEN rcStrong + 1 ELSE rcStrong
    /\ last' = Op("wrap", c)
    /\ UNCHANGED << released, tokenOutside, tokenReleased >>
    /\ UNCHANGED others

\* the creator of the token drops its own Rc
DropOutside ==
    /\ tokenOutside
    /\ tokenOutside' = FALSE
    /\ rcStrong' = rcStrong - 1
    /\ tokenReleased' = IF rcStrong = 1 THEN tokenReleased + 1
                        ELSE tokenReleased
    /\ last' = Op("drop_token", 0)
    /\ UNCHANGED << holder, owner, block, released >>
    /\ UNCHANGED others

\* Context::decoder()
IntoDecoder(c) ==
    /\ holder[c] = "Context"
    /\ MoveEffects(c, "Decoder", block[c])
    /\ last' = Op("decoder", c)
    /\ UNCHANGED << owner, tokenOutside >>
    /\ UNCHANGED others

\* Context::encoder()
IntoEncoder(c) ==
    /\ holder[c] = "Context"
    /\ MoveEffects(c, "Encoder", block[c])
    /\ last' = Op("encoder", c)
    /\ UNCHANGED << owner, tokenOutside >>
    /\ UNCHANGED others

\* a clone that shares the owner token of its source
CloneOwnerShared(o) == o

\* Context::new() inside clone: owner: None, whatever the source's owner is
CloneOwner(o) == "None"

\* the block dst after avcodec_copy_context(dst, src) returned ret: the
\* parameters of src on success, and dst is never opened by it
CopyContext(dst, src, ret) ==
    IF ret < 0 THEN dst
    ELSE [dst EXCEPT !.medium = src.medium, !.id = src.id]

\* impl Clone for Context: Context::new(), then clone_from(self), which
\* discards the return of avcodec_copy_context; d is where the clone lives
Clone(c, d, ret) ==
    /\ holder[c] \in Live /\ holder[d] = "none"
    /\ holder' = [holder EXCEPT ![d] = "Context"]
    /\ owner' = [owner EXCEPT ![d] = CloneOwner(owner[c])]
    /\ block' = [block EXCEPT ![d] = CopyContext(FreshBlock, block[c], ret)]
    /\ rcStrong' = IF CloneOwner(owner[c]) = "Some" THEN rcStrong + 1
                   ELSE rcStrong
    /\ last' = [Op("clone", d) EXCEPT !.called = 2, !.ret = ret, !.src = c]
    /\ UNCHANGED << released, tokenOutside, tokenReleased >>
    /\ UNCHANGED others

\* --------------------------------------------- drops on different threads
\* no drop of the handle is under way
NoThread == [pc |-> "idle", reg |-> 0]

\* Context is Send: the handle c, which shares the owner token, has been
\* moved to a thread of its own, and that thread begins to drop it once
\* every handle is made and the creator of the token has let go of its own
\* Rc. Drop::drop frees nothing, the owner being Some, and the drop of the
\* owner field, an Rc, is next
ThreadDrop(c) ==
    /\ holder[c] = "Context" /\ owner[c] = "Some" /\ thr[c].pc = "idle"
    /\ \A d \in Slots : holder[d] # "none"
    /\ ~tokenOutside
    /\ thr' = [thr EXCEPT ![c].pc = "read"]
    /\ last' = Op("thread_drop", c)
    /\ UNCHANGED << holder, owner, block, released, rcStrong, tokenOutside,
                    tokenReleased >>
    /\ UNCHANGED << fr, pipe, inp >>

\* the drop of the Rc reads the strong count, which is a plain Cell
RcRead(c) ==
    /\ thr[c].pc = "read"
    /\ thr' = [thr EXCEPT ![c] = [pc |-> "write", reg |-> rcStrong]]
    /\ last' = Op("rc_read", c)
    /\ UNCHANGED << holder, owner, block, released, rcStrong, tokenOutside,
                    tokenReleased >>
    /\ UNCHANGED << fr, pipe, inp >>

\* and stores the count it read, less one
RcWrite(c) ==
    /\ thr[c].pc = "write"
    /\ rcStrong' = thr[c].reg - 1
    /\ thr' = [thr EXCEPT ![c].pc = "check"]
    /\ last' = Op("rc_write", c)
    /\ UNCHANGED << holder, owner, block, released, tokenOutside,
                    tokenReleased >>
    /\ UNCHANGED << fr, pipe, inp >>

\* and releases the owner if the count now reads zero; the handle is gone
RcCheck(c) ==
    /\ thr[c].pc = "check"
    /\ tokenReleased' = IF rcStrong = 0 THEN tokenReleased + 1
                        ELSE tokenReleased
    /\ holder' = [holder EXCEPT ![c] = "dropped"]
    /\ thr' = [thr EXCEPT ![c].pc = "done"]
    /\ last' = Op("rc_check", c)
    /\ UNCHANGED << owner, block, released, rcStrong, tokenOutside >>
    /\ UNCHANGED << fr, pipe, inp >>

\* drop of whichever wrapper holds the handle
Drop(c) ==
    /\ holder[c] \in Live
    /\ DropEffects(c, block[c])
    /\ last' = Op("drop", c)
    /\ UNCHANGED << owner, tokenOutside >>
    /\ UNCHANGED others

\* --------------------------------------------------------------- native open
\* the block after avcodec_open2(ctx, codec, opts) returned ret: a
\* non-negative return leaves it opened, and an undetermined medium or id is
\* taken from the descriptor
NativeOpen(b, codec, ret) ==
    IF ret < 0 THEN b
    ELSE [b EXCEPT
            !.opened = TRUE,
            !.medium = IF @ = "Unknown" /\ codec # NoCodec
                       THEN codec.medium ELSE @,
            !.id = IF @ = "None" /\ codec # NoCodec THEN codec.id ELSE @]

\* n native open calls are made on c: was the block already opened then
Reopens(c, n) == n = 1 /\ block[c].opened

\* traits::Decoder::decoder() of a descriptor: Some iff it can decode
DecoderOf(codec) == codec.dec

\* Codec::is_encoder()
IsEncoder(codec) == codec.enc

\* the match on the return of avcodec_open2 in Decoder::open
DecoderOpenResult(e) == IF e = 0 THEN "Ok" ELSE ErrorFrom(e)

\* an open_as that skips the direction test
DecoderOpenAsUnchecked(codec, e) ==
    [called |-> 1, res |-> DecoderOpenResult(e)]

\* Decoder::open_as / open_as_with: the direction test, then the native open
DecoderOpenAsOutcome(codec, e) ==
    IF DecoderOf(codec)
    THEN [called |-> 1, res |-> DecoderOpenResult(e)]
    ELSE [called |-> 0, res |-> "DecoderNotFound"]

\* the match on the return of avcodec_open2 in encoder::Audio::open
AudioOpenResult(e) == IF e = 0 THEN "Ok" ELSE ErrorFrom(e)

\* encoder::Audio::open_as / open_as_with
AudioOpenAsOutcome(codec, e) ==
    IF IsEncoder(codec)
    THEN [called |-> 1, res |-> AudioOpenResult(e)]
    ELSE [called |-> 0, res |-> "InvalidData"]

\* open_as_with: Dictionary::own(opts) is a temporary that is dropped at the
\* end of its statement, and Result<_, Error> carries no dictionary: of the
\* entries the native open left in opts, these reach the caller
OptionsReturned(left) == {}

\* the Dictionary `options` as open_as_with receives it: it owns the native
\* dictionary that holds the entries opts, a null pointer when there are none
GivenDict(opts) ==
    [exists |-> opts # {}, owned |-> TRUE,
     ptr |-> IF opts = {} THEN "null" ELSE "given", tmp |-> FALSE,
     freed |-> [given |-> 0, tmp |-> 0]]

\* one step in the life of the options. disown() forgets the Dictionary and
\* keeps the raw pointer; avcodec_open2(.., &mut opts) either leaves the
\* pointer alone or (repl) frees the dictionary it was given and stores one
\* of its own with the entries left, null when none is; Dictionary::own(ptr)
\* owns the pointer again; the drop of a Dictionary frees what it owns
DictStep(d, ev, repl, left) ==
    CASE ev = "disown" -> [d EXCEPT !.owned = FALSE]
      [] ev = "open" ->
           IF repl /\ d.ptr # "null"
           THEN [d EXCEPT !.freed.given = @ + 1,
                          !.ptr = IF left = {} THEN "null" ELSE "tmp",
                          !.tmp = left # {}]
           ELSE d
      [] ev = "own" -> [d EXCEPT !.owned = TRUE]
      [] ev = "drop" ->
           IF d.owned /\ d.ptr # "null"
           THEN [d EXCEPT !.freed[d.ptr] = @ + 1, !.owned = FALSE]
           ELSE [d EXCEPT !.owned = FALSE]

RECURSIVE DictRun(_, _, _, _)
\* the options after the steps evs, in order
DictRun(d, evs, repl, left) ==
    IF evs = << >> THEN d
    ELSE DictRun(DictStep(d, Head(evs), repl, left), Tail(evs), repl, left)

\* an open_as_with that never takes the pointer back after the native open
OptionsStepsForgotten(called) ==
    IF called = 1 THEN << "disown", "open" >> ELSE << "drop" >>

\* what open_as_with does with its options: on the native path disown(),
\* the native open, Dictionary::own(opts) and the drop of that temporary; on
\* a direction mismatch nothing but the drop of the argument on return
OptionsSteps(called) ==
    IF called = 1 THEN << "disown", "open", "own", "drop" >> ELSE << "drop" >>

\* Decoder::open(self)
DecoderOpen(c, ret) ==
    /\ holder[c] = "Decoder"
    /\ Finish(c, DecoderOpenResult(ret), "Opened",
              NativeOpen(block[c], NoCodec, ret))
    /\ last' = [Op("dec_open", c) EXCEPT
                   !.called = 1, !.ret = ret, !.res = DecoderOpenResult(ret),
                   !.reopen = Reopens(c, 1)]
    /\ UNCHANGED << owner, tokenOutside >>
    /\ UNCHANGED others

\* Decoder::open_as(self, codec)
DecoderOpenAs(c, codec, ret) ==
    LET out == DecoderOpenAsOutcome(codec, ret) IN
    /\ holder[c] = "Decoder"
    /\ Finish(c, out.res, "Opened",
              IF out.called = 1 THEN NativeOpen(block[c], codec, ret)
              ELSE block[c])
    /\ last' = [Op("dec_open_as", c) EXCEPT
                   !.called = out.called, !.res = out.res,
                   !.ret = IF out.called = 1 THEN ret ELSE 0,
                   !.reopen = Reopens(c, out.called),
                   !.dirOk = codec.dec]
    /\ UNCHANGED << owner, tokenOutside >>
    /\ UNCHANGED others

\* Decoder::open_as_with(self, codec, options); the native open removes the
\* entries it uses from the dictionary, by storing a dictionary without them
\* (repl); where it is not called its return and effects are not drawn
DecoderOpenAsWith(c, codec, opts, used, repl, ret) ==
    LET out == DecoderOpenAsOutcome(codec, ret)
        left == IF out.called = 1 THEN opts \ used ELSE opts IN
    /\ holder[c] = "Decoder"
    /\ used \subseteq opts
    /\ ~repl => used = {}
    /\ out.called = 0 => (ret = 0 /\ used = {})
    /\ Finish(c, out.res, "Opened",
              IF out.called = 1 THEN NativeOpen(block[c], codec, ret)
              ELSE block[c])
    /\ last' = [Op("dec_open_as_with", c) EXCEPT
                   !.called = out.called, !.res = out.res,
                   !.ret = IF out.called = 1 THEN ret ELSE 0,
                   !.reopen = Reopens(c, out.called),
                   !.dirOk = codec.dec,
                   !.left = left, !.back = OptionsReturned(left),
                   !.dict = DictRun(GivenDict(opts), OptionsSteps(out.called),
                                    repl, left)]
    /\ UNCHANGED << owner, tokenOutside >>
    /\ UNCHANGED others

\* encoder::Audio::open(self)
AudioOpen(c, ret) ==
    /\ holder[c] = "EncAudio"
    /\ Finish(c, AudioOpenResult(ret), "AudioEncoder",
              NativeOpen(block[c], NoCodec, ret))
    /\ last' = [Op("enc_open", c) EXCEPT
                   !.called = 1, !.ret = ret, !.res = AudioOpenResult(ret),
                   !.reopen = Reopens(c, 1)]
    /\ UNCHANGED << owner, tokenOutside >>
    /\ UNCHANGED others

\* encoder::Audio::open_as(self, codec)
AudioOpenAs(c, codec, ret) ==
    LET out == AudioOpenAsOutcome(codec, ret) IN
    /\ holder[c] = "EncAudio"
    /\ Finish(c, out.res, "AudioEncoder",
              IF out.called = 1 THEN NativeOpen(block[c], codec, ret)
              ELSE block[c])
    /\ last' = [Op("enc_open_as", c) EXCEPT
                   !.called = out.called, !.res = out.res,
                   !.ret = IF out.called = 1 THEN ret ELSE 0,
                   !.reopen = Reopens(c, out.called),
                   !.dirOk = codec.enc]
    /\ UNCHANGED << owner, tokenOutside >>
    /\ UNCHANGED others

\* encoder::Audio::open_as_with(self, codec, options)
AudioOpenAsWith(c, codec, opts, used, repl, ret) ==
    LET out == AudioOpenAsOutcome(codec, ret)
        left == IF out.called = 1 THEN opts \ used ELSE opts IN
    /\ holder[c] = "EncAudio"
    /\ used \subseteq opts
    /\ ~repl => used = {}
    /\ out.called = 0 => (ret = 0 /\ used = {})
    /\ Finish(c, out.res, "AudioEncoder",
              IF out.called = 1 THEN NativeOpen(block[c], codec, ret)
              ELSE block[c])
    /\ last' = [Op("enc_open_as_with", c) EXCEPT
                   !.called = out.called, !.res = out.res,
                   !.ret = IF out.called = 1 THEN ret ELSE 0,
                   !.reopen = Reopens(c, out.called),
                   !.dirOk = codec.enc,
                   !.left = left, !.back = OptionsReturned(left),
                   !.dict = DictRun(GivenDict(opts), OptionsSteps(out.called),
                                    repl, left)]
    /\ UNCHANGED << owner, tokenOutside >>
    /\ UNCHANGED others

\* ----------------------------------------------------------- specialisation
\* a specialisation that overwrites whatever medium the context has
EncoderSpecialiseForced(cur, want) == [ok |-> TRUE, medium |-> want]

\* Encoder::video / audio / subtitle: the match on self.medium()
EncoderSpecialiseOutcome(cur, want) ==
    CASE cur = "Unknown" -> [ok |-> TRUE,  medium |-> want]
      [] cur = want      -> [ok |-> TRUE,  medium |-> cur]
      [] OTHER           -> [ok |-> FALSE, medium |-> cur]

EncWrapper(m) ==
    CASE m = "Video" -> "EncVideo"
      [] m = "Audio" -> "EncAudio"
      [] m = "Subtitle" -> "EncSubtitle"

DecWrapper(m) ==
    CASE m = "Video" -> "DecVideo"
      [] m = "Audio" -> "DecAudio"
      [] m = "Subtitle" -> "DecSubtitle"

\* Encoder::video(self) / audio(self) / subtitle(self), m the requested medium
EncoderSpecialise(c, m) ==
    LET out == EncoderSpecialiseOutcome(block[c].medium, m)
        res == IF out.ok THEN "Ok" ELSE "InvalidData" IN
    /\ holder[c] = "Encoder"
    /\ IF out.ok
       THEN MoveEffects(c, EncWrapper(m),
                        [block[c] EXCEPT !.medium = out.medium])
       ELSE DropEffects(c, [block[c] EXCEPT !.medium = out.medium])
    /\ last' = [Op("enc_special", c) EXCEPT
                   !.res = res, !.before = block[c].medium, !.want = m,
                   !.after = out.medium]
    /\ UNCHANGED << owner, tokenOutside >>
    /\ UNCHANGED others

\* a find that returns the first decoder it knows, whatever the id
FindAny(id) == CHOOSE k \in Codecs : k.dec

\* decoder::find(id): avcodec_find_decoder over the descriptor table
Find(id) ==
    IF \E k \in Codecs : k.id = id /\ k.dec
    THEN CHOOSE k \in Codecs : k.id = id /\ k.dec
    ELSE NoCodec

\* Opened::video / audio / subtitle: the medium of the opened context is
\* compared with the requested one
OpenedSpecialiseOk(cur, want) == cur = want

\* Decoder::video(self) / audio(self) / subtitle(self): find, open_as, then
\* the medium test on the opened context
DecoderSpecialise(c, m, ret) ==
    LET codec == Find(block[c].id)
        found == codec # NoCodec
        out   == IF found THEN DecoderOpenAsOutcome(codec, ret)
                 ELSE [called |-> 0, res |-> "DecoderNotFound"]
        b     == IF out.called = 1 THEN NativeOpen(block[c], codec, ret)
                 ELSE block[c]
        res   == IF out.res # "Ok" THEN out.res
                 ELSE IF OpenedSpecialiseOk(b.medium, m) THEN "Ok"
                 ELSE "InvalidData" IN
    /\ holder[c] = "Decoder"
    /\ IF res = "Ok"
       THEN MoveEffects(c, DecWrapper(m), b)
       ELSE DropEffects(c, b)
    /\ last' = [Op("dec_special", c) EXCEPT
                   !.called = out.called, !.res = res,
                   !.ret = IF out.called = 1 THEN ret ELSE 0,
                   !.reopen = Reopens(c, out.called),
                   !.dirOk = found, !.want = m, !.after = b.medium,
                   !.id = block[c].id,
                   !.desc = IF out.called = 1 THEN codec.id ELSE "None"]
    /\ UNCHANGED << owner, tokenOutside >>
    /\ UNCHANGED others

\* ------------------------------------------------------ public tuple fields
\* pub struct Encoder(pub Audio), Audio(pub Super), Encoder(pub Context),
\* Decoder(pub Context), decoder::Audio(pub Opened): none of these types
\* implements Drop, so the inner wrapper can be moved out of field 0
HasPubInner(h) ==
    h \in {"AudioEncoder", "EncAudio", "Encoder", "Decoder", "DecAudio"}

Inner(h) ==
    CASE h = "AudioEncoder" -> "EncAudio"
      [] h = "EncAudio"     -> "Encoder"
      [] h = "Encoder"      -> "Context"
      [] h = "Decoder"      -> "Context"
      [] h = "DecAudio"     -> "Opened"

\* let inner = wrapper.0;
TakeField(c) ==
    /\ HasPubInner(holder[c])
    /\ MoveEffects(c, Inner(holder[c]), block[c])
    /\ last' = Op("take_field", c)
    /\ UNCHANGED << owner, tokenOutside >>
    /\ UNCHANGED others

\* ----------------------------------------------------------- set_parameters
\* wrappers from which &mut Context is reached by DerefMut, AsMut or field 0
MutHolders ==
    {"Context", "Decoder", "Encoder", "EncAudio", "AudioEncoder", "DecAudio"}

\* a set_parameters that reports Ok whatever the native copy returned
SetParametersResultIgnored(e) == "Ok"

\* the match on the return of avcodec_parameters_to_context
SetParametersResult(e) == IF e < 0 THEN ErrorFrom(e) ELSE "Ok"

\* Context::set_parameters(&mut self, p): the native copy writes codec_type
\* and codec_id from p; when it fails the fields may or may not be written
SetParameters(c, p, ret, wrote) ==
    /\ holder[c] \in MutHolders
    /\ ret >= 0 => wrote
    /\ block' = [block EXCEPT ![c] =
                    IF wrote THEN [@ EXCEPT !.medium = p.medium, !.id = p.id]
                    ELSE @]
    /\ last' = [Op("set_parameters", c) EXCEPT
                   !.called = 1, !.ret = ret, !.res = SetParametersResult(ret),
                   !.want = p.medium, !.id = p.id]
    /\ UNCHANGED << holder, owner, released, rcStrong, tokenOutside,
                    tokenReleased >>
    /\ UNCHANGED others

\* ---------------------------------------------------------------- threading
\* threading::Type
ThreadTypes == {"None", "Frame", "Slice"}

\* what usize holds
UsizeValues == 0 .. 2 ^ UsizeBits - 1

\* threading::Config values: kind, count: usize, safe: bool
Configs == [kind : ThreadTypes, count : UsizeValues, safe : BOOLEAN]

\* what the active-thread-type field of a block may hold: nothing, frame
\* threading, slice threading
ActiveTypes == {0, 1, 2}

\* impl From<Type> for c_int: FF_THREAD_FRAME and FF_THREAD_SLICE
TypeInto(kind) ==
    CASE kind = "Frame" -> 1
      [] kind = "Slice" -> 2
      [] OTHER          -> 0

\* impl From<c_int> for Type
TypeFrom(v) ==
    CASE v = 1 -> "Frame"
      [] v = 2 -> "Slice"
      [] OTHER -> "None"

\* n as c_int: the low CIntBits bits of n, read as a signed number
AsCInt(n) ==
    LET low == n % 2 ^ CIntBits IN
    IF low >= 2 ^ (CIntBits - 1) THEN low - 2 ^ CIntBits ELSE low

\* v as usize, v a c_int: sign extension to UsizeBits bits, read unsigned
AsUsize(v) == v % 2 ^ UsizeBits

\* Context::wrap(ptr, None) around a block that is in use elsewhere, with
\* the thread type a active in it
WrapActive(c, p, a) ==
    /\ holder[c] = "none"
    /\ holder' = [holder EXCEPT ![c] = "Context"]
    /\ owner' = [owner EXCEPT ![c] = "None"]
    /\ block' = [block EXCEPT ![c] =
                    [FreshBlock EXCEPT !.medium = p.medium, !.id = p.id,
                                       !.thread.active_thread_type = a]]
    /\ last' = Op("wrap", c)
    /\ UNCHANGED << released, rcStrong, tokenOutside, tokenReleased >>
    /\ UNCHANGED others

\* Context::set_threading(&mut self, config): three stores, into
\* thread_type, thread_count and thread_safe_callbacks
SetThreading(c, config) ==
    /\ holder[c] \in MutHolders
    /\ block' = [block EXCEPT ![c].thread =
                    [@ EXCEPT !.thread_type = TypeInto(config.kind),
                              !.thread_count = AsCInt(config.count),
                              !.thread_safe_callbacks =
                                  IF config.safe THEN 1 ELSE 0]]
    /\ last' = [Op("set_threading", c) EXCEPT
                   !.config = config,
                   !.active = block[c].thread.active_thread_type]
    /\ UNCHANGED << holder, owner, released, rcStrong, tokenOutside,
                    tokenReleased >>
    /\ UNCHANGED others

\* what Context::threading(&self) builds from the block's fields
ThreadingConfig(t) ==
    [kind |-> TypeFrom(t.active_thread_type),
     count |-> AsUsize(t.thread_count),
     safe |-> t.thread_safe_callbacks # 0]

\* Context::threading(&self); it remembers whether the operation before it
\* was set_threading on the same context, and with which config
Threading(c) ==
    /\ holder[c] \in Live
    /\ last' = [Op("threading", c) EXCEPT
                   !.got = ThreadingConfig(block[c].thread),
                   !.afterSet = last.op = "set_threading" /\ last.c = c,
                   !.config = last.config,
                   !.active = last.active]
    /\ UNCHANGED ctxVars
    /\ UNCHANGED << fr, pipe, inp >>

\* ------------------------------------------------------------ format::Input
\* the match on the return of av_read_pause / av_read_play
PauseResult(e) == IF e = 0 THEN "Ok" ELSE ErrorFrom(e)

PlayResult(e) == IF e = 0 THEN "Ok" ELSE ErrorFrom(e)

\* the match on the return of avformat_seek_file
SeekResult(e) == IF e >= 0 THEN "Ok" ELSE ErrorFrom(e)

\* what av_read_frame may return
ReadRets == {AVERROR.EOF, AVERROR.EAGAIN, AVERROR.INVALIDDATA, 0}

\* no (Stream, Packet) pair
NoItem == [stream |-> -1, pkt |-> -1]

\* no Input: nothing wrapped yet
NoInput ==
    [open |-> FALSE, nstreams |-> 0, total |-> 0, left |-> 0, iter |-> FALSE,
     pc |-> "idle", reads |-> 0, errs |-> 0, ret |-> 0, out |-> "NoCall",
     item |-> NoItem, yielded |-> 0, held |-> 0, overlap |-> FALSE,
     ended |-> FALSE]

\* Input::wrap(ptr): the native format context has n streams, and k packets
\* are still to be read from its source
InputWrap(n, k) ==
    /\ ~inp.open
    /\ inp' = [NoInput EXCEPT !.open = TRUE, !.nstreams = n, !.total = k,
                              !.left = k]
    /\ last' = Op("input_wrap", 0)
    /\ UNCHANGED ctxVars
    /\ UNCHANGED << fr, pipe >>

\* &mut Input can be taken: no PacketIter and no Stream<'a> it yielded holds
\* the borrow
InputFree == inp.open /\ ~inp.iter /\ inp.held = 0

\* Input::pause(&mut self)
Pause(ret) ==
    /\ InputFree
    /\ last' = [Op("pause", 0) EXCEPT !.called = 1, !.ret = ret,
                                      !.res = PauseResult(ret)]
    /\ UNCHANGED ctxVars
    /\ UNCHANGED << fr, pipe, inp >>

\* Input::play(&mut self)
Play(ret) ==
    /\ InputFree
    /\ last' = [Op("play", 0) EXCEPT !.called = 1, !.ret = ret,
                                     !.res = PlayResult(ret)]
    /\ UNCHANGED ctxVars
    /\ UNCHANGED << fr, pipe, inp >>

\* i64::min_value() and i64::max_value(), on the scale of the timestamps
\* below: no timestamp of the model lies outside I64Min .. I64Max
I64Min == -2

I64Max == 2

\* the timestamps seek is called with
Timestamps == {0, 1}

\* Range::start() and Range::end(): an Option, << >> for None
RangeStarts == {<< >>, << 0 >>}

RangeEnds == {<< >>, << 1 >>}

\* Option::unwrap_or(default)
UnwrapOr(opt, default) == IF opt = << >> THEN default ELSE opt[1]

\* a seek that pins an open side of the range to the target
SeekArgsPinned(ts, start, end) ==
    [stream |-> -1, min |-> UnwrapOr(start, ts), ts |-> ts,
     max |-> UnwrapOr(end, ts), flags |-> 0]

\* the arguments seek hands to avformat_seek_file after the context pointer
SeekArgs(ts, start, end) ==
    [stream |-> -1, min |-> UnwrapOr(start, I64Min), ts |-> ts,
     max |-> UnwrapOr(end, I64Max), flags |-> 0]

\* Input::seek(&mut self, ts, range): one call of avformat_seek_file, which
\* on success leaves the read cursor with pos packets still to read
Seek(ts, start, end, ret, pos) ==
    /\ InputFree
    /\ pos \in 0 .. inp.total
    /\ ret < 0 => pos = inp.left
    /\ inp' = [inp EXCEPT !.left = pos]
    /\ last' = [Op("seek", 0) EXCEPT !.called = 1, !.ret = ret,
                                     !.res = SeekResult(ret),
                                     !.ts = ts, !.start = start, !.end = end,
                                     !.args = SeekArgs(ts, start, end)]
    /\ UNCHANGED ctxVars
    /\ UNCHANGED << fr, pipe >>

\* ---------------------------------------------------------------- PacketIter
\* Input::packets(&mut self) / PacketIter::new: the iterator borrows the Input
\* and has yielded nothing yet
Packets ==
    /\ InputFree
    /\ inp' = [inp EXCEPT !.iter = TRUE, !.out = "NoCall", !.yielded = 0,
                          !.ended = FALSE]
    /\ last' = Op("packets", 0)
    /\ UNCHANGED ctxVars
    /\ UNCHANGED << fr, pipe >>

\* the PacketIter is dropped between two calls of next()
IterDrop ==
    /\ inp.iter /\ inp.pc = "idle"
    /\ inp' = [inp EXCEPT !.iter = FALSE]
    /\ last' = Op("iter_drop", 0)
    /\ UNCHANGED ctxVars
    /\ UNCHANGED << fr, pipe >>

\* the caller drops one Stream<'a> it got from next(): Item = (Stream<'a>,
\* Packet) borrows for 'a, not for the call of next(), so the caller keeps
\* it as long as it likes, and drops it between two calls
StreamDrop ==
    /\ inp.held > 0 /\ inp.pc = "idle"
    /\ inp' = [inp EXCEPT !.held = @ - 1]
    /\ last' = Op("stream_drop", 0)
    /\ UNCHANGED ctxVars
    /\ UNCHANGED << fr, pipe >>

\* Packet::read: the match on the return of av_read_frame
ReadResult(e) == IF e < 0 THEN ErrorFrom(e) ELSE "Ok"

\* a next() that ends the sequence on any error
NextMatchSurfacing(res) == IF res = "Ok" THEN "Some" ELSE "None"

\* PacketIter::next: the match on the result of packet.read
NextMatch(res) ==
    CASE res = "Ok"  -> "Some"
      [] res = "Eof" -> "None"
      [] OTHER       -> "Retry"

\* a Stream wrapped with the first stream's index whatever the packet says
YieldedStreamFirst(index) == 0

\* Stream::wrap(context, packet.stream()): the index the Stream refers to
YieldedStream(index) == index

\* a loop that reads twice in one iteration
ReadsAfterTwice(n) == IF n + 1 < MaxReads THEN n + 2 ELSE MaxReads

\* one iteration of the loop makes one call of packet.read; n counts the
\* reads of the call so far, up to MaxReads
ReadsAfter(n) == IF n < MaxReads THEN n + 1 ELSE MaxReads

\* av_read_frame may answer with ret and stream index idx: a packet, tagged
\* with one of the source's streams, only while one is left to read; end of
\* file only when none is left; an error at any time
ReadAllowed(ret, idx) ==
    /\ ret >= 0 => (inp.left > 0 /\ idx \in 0 .. inp.nstreams - 1)
    /\ ret < 0 => idx = -1
    /\ ret = AVERROR.EOF => inp.left = 0

\* the Input after one iteration of the loop in next(), n reads having been
\* made in this call before it
ReadStep(n, e, ret, idx) ==
    LET what == NextMatch(ReadResult(ret)) IN
    [inp EXCEPT
        !.reads = ReadsAfter(n),
        !.errs = IF what = "Retry" /\ e < MaxReads THEN e + 1 ELSE e,
        !.ret = ret,
        !.left = IF ret >= 0 THEN @ - 1 ELSE @,
        !.overlap = inp.held > 0,
        !.pc = IF what = "Retry" THEN "loop" ELSE "idle",
        !.out = IF what = "Retry" THEN "Running" ELSE what,
        !.item = IF what = "Some"
                 THEN [stream |-> YieldedStream(idx), pkt |-> idx]
                 ELSE NoItem,
        !.yielded = IF what = "Some" THEN @ + 1 ELSE @,
        !.held = IF what = "Some" THEN @ + 1 ELSE @,
        !.ended = @ \/ what = "None"]

\* an iterator that remembers it has ended and reads no more
NextReadsFused(ended) == ~ended

\* PacketIter holds the &mut Input and nothing else: next() enters its loop
\* and reads whether or not an earlier call has returned None
NextReads(ended) == TRUE

\* PacketIter::next(&mut self): Packet::empty() and the first iteration of
\* the loop
IterNext(ret, idx) ==
    /\ inp.iter /\ inp.pc = "idle"
    /\ IF NextReads(inp.ended)
       THEN /\ ReadAllowed(ret, idx)
            /\ inp' = ReadStep(0, 0, ret, idx)
       ELSE /\ ret = AVERROR.EOF /\ idx = -1
            /\ inp' = [inp EXCEPT !.reads = 0, !.errs = 0, !.out = "None",
                                  !.item = NoItem]
    /\ last' = [Op("read", 0) EXCEPT
                   !.called = IF NextReads(inp.ended) THEN 1 ELSE 0,
                   !.ret = ret, !.res = ReadResult(ret),
                   !.prev = inp.ended]
    /\ UNCHANGED ctxVars
    /\ UNCHANGED << fr, pipe >>

\* PacketIter::next: a further iteration of the loop, after Err(..) => ()
IterRetry(ret, idx) ==
    /\ inp.pc = "loop"
    /\ ReadAllowed(ret, idx)
    /\ inp' = ReadStep(inp.reads, inp.errs, ret, idx)
    /\ last' = [Op("read", 0) EXCEPT !.called = 1, !.ret = ret,
                                     !.res = ReadResult(ret),
                                     !.prev = inp.ended]
    /\ UNCHANGED ctxVars
    /\ UNCHANGED << fr, pipe >>

\* the pipeline before anything was sent
NoPipe ==
    [pc |-> "send", sent |-> 0, draining |-> FALSE, queue |-> << >>,
     produced |-> << >>, received |-> << >>, pkt |-> 0, nulls |-> 0]

\* ------------------------------------------------------- util::frame::Audio
\* format::Sample values used by the model
Formats == {"None", "I16Packed", "F32Planar"}

\* ChannelLayout values used by the model
Layouts == {"MONO", "STEREO"}

\* the formats and layouts the plane accessors are tried on
PlaneFormats ==
    {"None", "I16Packed", "I16Planar", "I32Packed", "I32Planar", "F32Packed",
     "F32Planar"}

PlaneLayouts == Layouts \cup {"SURROUND"}

\* format::Sample: the sample type of a format
FormatKind(format) ==
    CASE format \in {"I16Packed", "I16Planar"} -> "I16"
      [] format \in {"I32Packed", "I32Planar"} -> "I32"
      [] format \in {"F32Packed", "F32Planar"} -> "F32"
      [] OTHER                                 -> "None"

\* format::Sample::is_packed(): not planar, which the empty format is not
IsPackedFormat(format) ==
    format \notin {"I16Planar", "I32Planar", "F32Planar"}

\* format::Sample::X(sample::Type::Packed) of a sample type
PackedOf(kind) ==
    CASE kind = "I16" -> "I16Packed"
      [] kind = "I32" -> "I32Packed"
      [] kind = "F32" -> "F32Packed"

\* ChannelLayout::channels()
Channels(layout) ==
    CASE layout = "MONO"     -> 1
      [] layout = "STEREO"   -> 2
      [] layout = "SURROUND" -> 3

\* the element types T: Sample of plane<T>: a sample type, alone (arity 1)
\* or as a tuple of 2 or 3 of them (the source goes on to 7)
ElemTypes == [kind : {"I16", "I32", "F32"}, arity : {1, 2, 3}]

\* the plane indices the accessors are tried with
PlaneIndices == {0, 1, 2, 3}

\* what av_frame_get_buffer / av_frame_copy / av_frame_copy_props may return
FrameRets == {AVERROR.ENOMEM, 0}

Frames == 1 .. MaxFrames

\* the buffer of a frame: the format, sample count and channel count it was
\* allocated for; none before allocation
NoShape == [format |-> "None", samples |-> 0, channels |-> 0]

\* Audio::empty(): a frame descriptor without a buffer
EmptyFrame ==
    [live |-> TRUE, format |-> "None", samples |-> 0, layout |-> "MONO",
     buf |-> FALSE, data |-> 0, channels |-> 0, shape |-> NoShape]

NoFrame == [EmptyFrame EXCEPT !.live = FALSE]

\* Audio::alloc(&mut self, format, samples, layout): the three setters, then
\* av_frame_get_buffer, whose return value is not looked at
\* (linesize[0] stays 0 when it failed); the native call derives a channel
\* count not yet set from the layout and allocates for what is declared
Alloc(f, format, samples, layout, ret) ==
    LET n == IF ret >= 0 /\ f.channels = 0 THEN Channels(layout)
             ELSE f.channels IN
    [f EXCEPT !.format = format, !.samples = samples, !.layout = layout,
              !.buf = (ret >= 0), !.data = 0, !.channels = n,
              !.shape = IF ret >= 0
                        THEN [format |-> format, samples |-> samples,
                              channels |-> n]
                        ELSE NoShape]

\* av_frame_get_buffer refuses a frame whose format is not set
AllocAllowed(format, ret) == format = "None" => ret < 0

\* what Audio::alloc / Audio::new report of the native return code
AllocResult(e) == "NoResult"

\* Audio::clone_from(&mut self, source): av_frame_copy and
\* av_frame_copy_props, whose return values are not looked at; the copy
\* writes the source's samples into the buffer
CloneFrom(f, source, rc, rp) ==
    [f EXCEPT !.data = IF rc >= 0 THEN source.data ELSE @]

\* what clone / clone_from report of the native return codes
CloneResult(e) == "NoResult"

\* the first negative code of a sequence of native returns, 0 if none
RECURSIVE FirstNegative(_)
FirstNegative(rs) ==
    IF rs = << >> THEN 0
    ELSE IF Head(rs) < 0 THEN Head(rs)
    ELSE FirstNegative(Tail(rs))

\* Audio::new(format, samples, layout)
FrameNew(f, format, samples, layout, ret) ==
    /\ ~fr[f].live
    /\ AllocAllowed(format, ret)
    /\ fr' = [fr EXCEPT ![f] = Alloc(EmptyFrame, format, samples, layout, ret)]
    /\ last' = [Op("frame_new", f) EXCEPT !.called = 1, !.ret = ret,
                                          !.res = AllocResult(ret)]
    /\ UNCHANGED ctxVars
    /\ UNCHANGED << pipe, inp >>

\* a caller fills the buffer through data_mut / plane_mut
FrameWrite(f, d) ==
    /\ fr[f].live /\ fr[f].buf /\ fr[f].data # d
    /\ fr' = [fr EXCEPT ![f].data = d]
    /\ last' = Op("frame_write", f)
    /\ UNCHANGED ctxVars
    /\ UNCHANGED << pipe, inp >>

\* Audio::clone(&self): Audio::new from the source's format, samples and
\* layout, then clone_from; an av_frame_copy into a frame without buffer fails
FrameClone(src, dst, ra, rc, rp) ==
    /\ fr[src].live /\ ~fr[dst].live
    /\ AllocAllowed(fr[src].format, ra)
    /\ ra < 0 => rc < 0
    /\ fr' = [fr EXCEPT ![dst] =
                 CloneFrom(Alloc(EmptyFrame, fr[src].format, fr[src].samples,
                                 fr[src].layout, ra),
                           fr[src], rc, rp)]
    /\ last' = [Op("frame_clone", dst) EXCEPT
                   !.src = src,
                   !.called = 1, !.ret = FirstNegative(<< ra, rc, rp >>),
                   !.res = CloneResult(FirstNegative(<< ra, rc, rp >>))]
    /\ UNCHANGED ctxVars
    /\ UNCHANGED << pipe, inp >>

\* the frame is dropped
FrameDrop(f) ==
    /\ fr[f].live
    /\ fr' = [fr EXCEPT ![f] = NoFrame]
    /\ last' = Op("frame_drop", f)
    /\ UNCHANGED ctxVars
    /\ UNCHANGED << pipe, inp >>

\* -------------------------------------------------- planes of frame::Audio
\* Audio::set_format(&mut self, value): the declared format alone changes
FrameSetFormat(f, format) ==
    /\ fr[f].live /\ fr[f].format # format
    /\ fr' = [fr EXCEPT ![f].format = format]
    /\ last' = Op("set_format", f)
    /\ UNCHANGED ctxVars
    /\ UNCHANGED << pipe, inp >>

\* Audio::set_samples(&mut self, value): the declared sample count alone
\* changes
FrameSetSamples(f, n) ==
    /\ fr[f].live /\ fr[f].samples # n
    /\ fr' = [fr EXCEPT ![f].samples = n]
    /\ last' = Op("set_samples", f)
    /\ UNCHANGED ctxVars
    /\ UNCHANGED << pipe, inp >>

\* Audio::planes(&self)
Planes(f) ==
    IF ~f.buf THEN 0
    ELSE IF IsPackedFormat(f.format) THEN 1
    ELSE f.channels

\* an is_valid that looks at the arrangement and the channel count only
IsValidAnyKind(T, format, channels) ==
    IF T.arity = 1 THEN format # "None"
    ELSE channels = T.arity /\ IsPackedFormat(format)

\* <T as Sample>::is_valid(format, channels): a sample type alone matches
\* its format in either arrangement and with any channel count, a tuple of n
\* matches the packed format with n channels
IsValid(T, format, channels) ==
    IF T.arity = 1 THEN FormatKind(format) = T.kind
    ELSE channels = T.arity /\ format = PackedOf(T.kind)

\* Audio::plane / plane_mut: the index test, then the type test, then the
\* slice over data[index]
PlaneOutcome(f, T, index) ==
    IF index >= Planes(f) THEN "out of bounds"
    ELSE IF ~IsValid(T, f.format, f.channels) THEN "unsupported type"
    ELSE "slice"

\* Audio::data / data_mut: the index test, then the slice over data[index]
DataOutcome(f, index) ==
    IF index >= Planes(f) THEN "out of bounds" ELSE "slice"

\* the length of the slice plane<T> builds: self.samples() elements of T
PlaneLen(f, out) == IF out = "slice" THEN f.samples ELSE 0

\* Audio::plane::<T>(&self, index)
FramePlane(f, T, index) ==
    LET out == PlaneOutcome(fr[f], T, index) IN
    /\ fr[f].live
    /\ last' = [Op("plane", f) EXCEPT !.elem = T, !.index = index,
                                      !.view = out,
                                      !.len = PlaneLen(fr[f], out)]
    /\ UNCHANGED ctxVars
    /\ UNCHANGED << fr, pipe, inp >>

\* Audio::plane_mut::<T>(&mut self, index)
FramePlaneMut(f, T, index) ==
    LET out == PlaneOutcome(fr[f], T, index) IN
    /\ fr[f].live
    /\ last' = [Op("plane_mut", f) EXCEPT !.elem = T, !.index = index,
                                          !.view = out,
                                          !.len = PlaneLen(fr[f], out)]
    /\ UNCHANGED ctxVars
    /\ UNCHANGED << fr, pipe, inp >>

\* Audio::data(&self, index)
FrameData(f, index) ==
    /\ fr[f].live
    /\ last' = [Op("data", f) EXCEPT !.index = index,
                                     !.view = DataOutcome(fr[f], index)]
    /\ UNCHANGED ctxVars
    /\ UNCHANGED << fr, pipe, inp >>

\* Audio::data_mut(&mut self, index)
FrameDataMut(f, index) ==
    /\ fr[f].live
    /\ last' = [Op("data_mut", f) EXCEPT !.index = index,
                                         !.view = DataOutcome(fr[f], index)]
    /\ UNCHANGED ctxVars
    /\ UNCHANGED << fr, pipe, inp >>

\* ------------------------------------------- Encoder send / receive protocol
\* what avcodec_send_frame may return
SendRets == {AVERROR.EOF, AVERROR.EAGAIN, AVERROR.INVALIDDATA, 0}

\* what avcodec_receive_packet may return
ReceiveRets == {AVERROR.EOF, AVERROR.EAGAIN, AVERROR.INVALIDDATA, 0}

\* a send that reports Ok whatever the native call returned
SendFrameResultSwallow(e) == "Ok"

\* the match on the return of avcodec_send_frame in Encoder::send_frame
SendFrameResult(e) == IF e < 0 THEN ErrorFrom(e) ELSE "Ok"

\* a receive that takes "no output now" for a unit
ReceivePacketLenient(e) ==
    IF e < AVERROR.INVALIDDATA THEN ErrorFrom(e) ELSE "Ok"

\* the match on the return of avcodec_receive_packet
ReceivePacketResult(e) == IF e < 0 THEN ErrorFrom(e) ELSE "Ok"

\* the native codec may answer a send with ret: it refuses with EAGAIN only
\* while output is waiting, with EOF only once it is draining, and accepts
\* only while it is not draining
SendAllowed(ret) ==
    /\ ret = AVERROR.EAGAIN => pipe.queue # << >>
    /\ ret = AVERROR.EOF => pipe.draining
    /\ ret >= 0 => ~pipe.draining

\* the native codec may answer a receive with ret: a unit only if one is
\* buffered, EAGAIN / EOF only if none is
ReceiveAllowed(ret) ==
    /\ ret >= 0 => pipe.queue # << >>
    /\ ret = AVERROR.EAGAIN => (pipe.queue = << >> /\ ~pipe.draining)
    /\ ret = AVERROR.EOF => (pipe.queue = << >> /\ pipe.draining)

\* the k units the codec emits next, numbered in the order it produces them
NewUnits(k) == [i \in 1 .. k |-> Len(pipe.produced) + i]

\* the codec after an accepted input that made it emit k units
Accepted(k, eof) ==
    [pipe EXCEPT !.queue = @ \o NewUnits(k),
                 !.produced = @ \o NewUnits(k),
                 !.draining = @ \/ eof]

\* one more received unit fits the bound of the model
ReceiveRoom == Len(pipe.received) <= (MaxSend + 1) * MaxBurst

\* Encoder::send_frame(&mut self, frame), unwrapped by the caller's loop: the
\* drain loop follows on Ok
SendFrame(ret, k) ==
    /\ pipe.pc = "send" /\ pipe.sent < MaxSend
    /\ SendAllowed(ret)
    /\ ret < 0 => k = 0
    /\ pipe' = [(IF ret >= 0 THEN Accepted(k, FALSE) ELSE pipe) EXCEPT
                   !.sent = @ + 1,
                   !.pc = IF SendFrameResult(ret) = "Ok" THEN "drain"
                          ELSE "abort"]
    /\ last' = [Op("send_frame", 0) EXCEPT !.called = 1, !.ret = ret,
                                           !.res = SendFrameResult(ret)]
    /\ UNCHANGED ctxVars
    /\ UNCHANGED << fr, inp >>

\* a send_eof that asks the frame it made whether it is a key frame first
EofSentinelUsesInspected == << "wrap", "is_key", "as_ptr", "drop" >>

\* what Encoder::send_eof does with the frame it wraps around null, in order:
\* Frame::wrap(null), frame.as_ptr() inside send_frame, and the drop of the
\* temporary at the end of the statement
EofSentinelUses == << "wrap", "as_ptr", "drop" >>

\* what audio::Encoder::flush does with the frame it wraps around null:
\* frame::Audio::wrap(null), frame.as_ptr() inside encode, and the drop
FlushSentinelUses == << "wrap", "as_ptr", "drop" >>

\* Encoder::send_eof(&mut self): send_frame with a frame wrapping null, so
\* the native send is called once with a null frame
SendEof(ret, k) ==
    /\ pipe.pc = "send"
    /\ SendAllowed(ret)
    /\ ret < 0 => k = 0
    /\ pipe' = [(IF ret >= 0 THEN Accepted(k, TRUE) ELSE pipe) EXCEPT
                   !.nulls = @ + 1,
                   !.pc = IF SendFrameResult(ret) = "Ok" THEN "drain"
                          ELSE "abort"]
    /\ last' = [Op("send_eof", 0) EXCEPT !.called = 1, !.ret = ret,
                                         !.res = SendFrameResult(ret),
                                         !.uses = EofSentinelUses]
    /\ UNCHANGED ctxVars
    /\ UNCHANGED << fr, inp >>

\* Encoder::receive_packet(&mut self, packet) inside the drain loop: the
\* native call blanks the packet and fills it when it returns a unit; the
\* loop takes the packet on Ok and ends on Err
ReceivePacket(ret) ==
    LET res == ReceivePacketResult(ret)
        pkt == IF ret >= 0 THEN Head(pipe.queue) ELSE 0 IN
    /\ pipe.pc = "drain"
    /\ ReceiveAllowed(ret)
    /\ ReceiveRoom
    /\ pipe' = [pipe EXCEPT
                   !.pkt = pkt,
                   !.queue = IF ret >= 0 THEN Tail(@) ELSE @,
                   !.received = IF res = "Ok" THEN Append(@, pkt) ELSE @,
                   !.pc = IF res = "Ok" THEN "drain"
                          ELSE IF pipe.draining THEN "done" ELSE "send"]
    /\ last' = [Op("receive_packet", 0) EXCEPT !.called = 1, !.ret = ret,
                                                !.res = res]
    /\ UNCHANGED ctxVars
    /\ UNCHANGED << fr, inp >>

\* ------------------------------------------------- the documented decode loop
\* decoder::Opened::send_packet / send_eof: the native return, translated
SendPacketResult(e) == IF e < 0 THEN ErrorFrom(e) ELSE "Ok"

\* decoder::Opened::receive_frame: the native return, translated
ReceiveFrameResult(e) == IF e < 0 THEN ErrorFrom(e) ELSE "Ok"

\* decoder.send_packet(&packet).unwrap() for one more packet of the chosen
\* stream: the codec takes the packet and decodes k frames from it, or
\* refuses it and the unwrap panics
SendPacket(ret, k) ==
    /\ pipe.pc = "send" /\ pipe.sent < MaxSend
    /\ SendAllowed(ret)
    /\ ret < 0 => k = 0
    /\ pipe' = [(IF ret >= 0 THEN Accepted(k, FALSE) ELSE pipe) EXCEPT
                   !.sent = @ + 1,
                   !.pc = IF SendPacketResult(ret) = "Ok" THEN "drain"
                          ELSE "abort"]
    /\ last' = [Op("send_packet", 0) EXCEPT !.called = 1, !.ret = ret,
                                            !.res = SendPacketResult(ret)]
    /\ UNCHANGED ctxVars
    /\ UNCHANGED << fr, inp >>

\* decoder.send_eof().unwrap() after the last packet
DecoderSendEof(ret, k) ==
    /\ pipe.pc = "send"
    /\ SendAllowed(ret)
    /\ ret < 0 => k = 0
    /\ pipe' = [(IF ret >= 0 THEN Accepted(k, TRUE) ELSE pipe) EXCEPT
                   !.nulls = @ + 1,
                   !.pc = IF SendPacketResult(ret) = "Ok" THEN "drain"
                          ELSE "abort"]
    /\ last' = [Op("decoder_send_eof", 0) EXCEPT
                   !.called = 1, !.ret = ret, !.res = SendPacketResult(ret)]
    /\ UNCHANGED ctxVars
    /\ UNCHANGED << fr, inp >>

\* one turn of `while decoder.receive_frame(&mut decoded).is_ok()`: the body
\* runs on Ok, and any Err ends the loop, after which the closure returns
\* Ok(()) and the caller goes on to its next send
ReceiveFrame(ret) ==
    LET res == ReceiveFrameResult(ret)
        frame == IF ret >= 0 THEN Head(pipe.queue) ELSE 0 IN
    /\ pipe.pc = "drain"
    /\ ReceiveAllowed(ret)
    /\ ReceiveRoom
    /\ pipe' = [pipe EXCEPT
                   !.pkt = frame,
                   !.queue = IF ret >= 0 THEN Tail(@) ELSE @,
                   !.received = IF res = "Ok" THEN Append(@, frame) ELSE @,
                   !.pc = IF res = "Ok" THEN "drain"
                          ELSE IF pipe.draining THEN "done" ELSE "send"]
    /\ last' = [Op("receive_frame", 0) EXCEPT !.called = 1, !.ret = ret,
                                              !.res = res]
    /\ UNCHANGED ctxVars
    /\ UNCHANGED << fr, inp >>

\* what avcodec_encode_audio2 may return
EncodeRets == {AVERROR.INVALIDDATA, 0}

\* the match on the return of avcodec_encode_audio2 in audio::Encoder::encode
EncodeResult(e, got) ==
    IF e < 0 THEN ErrorFrom(e)
    ELSE IF got # 0 THEN "Ok(true)" ELSE "Ok(false)"

\* audio::Encoder::flush(&mut self, out): encode with a frame wrapping null;
\* the native call fills out with a unit the codec had kept back (got = 1)
\* or with none
AudioFlush(ret, got) ==
    /\ pipe.pc = "send"
    /\ got = 1 => (ret >= 0 /\ pipe.queue # << >>)
    /\ pipe' = IF got = 1
               THEN [pipe EXCEPT !.pkt = Head(pipe.queue),
                                 !.queue = Tail(@),
                                 !.received = Append(@, Head(pipe.queue))]
               ELSE [pipe EXCEPT !.pkt = 0]
    /\ last' = [Op("flush", 0) EXCEPT !.called = 1, !.ret = ret,
                                      !.res = EncodeResult(ret, got),
                                      !.uses = FlushSentinelUses]
    /\ UNCHANGED ctxVars
    /\ UNCHANGED << fr, inp >>

Init ==
    /\ holder = [c \in Slots |-> "none"]
    /\ owner = [c \in Slots |-> "None"]
    /\ block = [c \in Slots |-> NoBlock]
    /\ released = [c \in Slots |-> 0]
    /\ rcStrong = 1
    /\ tokenOutside = TRUE
    /\ tokenReleased = 0
    /\ last = NoOp
    /\ fr = [f \in Frames |-> NoFrame]
    /\ pipe = NoPipe
    /\ inp = NoInput
    /\ thr = [c \in Slots |-> NoThread]

Next ==
    \/ \E c \in Ctxs : New(c)
    \/ \E c \in Ctxs, o \in {"None", "Some"}, p \in WrapParams : Wrap(c, o, p)
    \/ DropOutside
    \/ \E c \in Ctxs : IntoDecoder(c)
    \/ \E c \in Ctxs : IntoEncoder(c)
    \/ \E c \in Ctxs : Drop(c)
    \/ \E c \in Ctxs, ret \in OpenRets : DecoderOpen(c, ret)
    \/ \E c \in Ctxs, k \in Codecs, ret \in OpenRets : DecoderOpenAs(c, k, ret)
    \/ \E c \in Ctxs, k \in Codecs, o \in SUBSET Keys, ret \in OpenRets :
          \E u \in SUBSET o : DecoderOpenAsWith(c, k, o, u, TRUE, ret)
    \/ \E c \in Ctxs, ret \in OpenRets : AudioOpen(c, ret)
    \/ \E c \in Ctxs, k \in Codecs, ret \in OpenRets : AudioOpenAs(c, k, ret)
    \/ \E c \in Ctxs, k \in Codecs, o \in SUBSET Keys, ret \in OpenRets :
          \E u \in SUBSET o : AudioOpenAsWith(c, k, o, u, TRUE, ret)
    \/ \E c \in Ctxs, m \in Special : EncoderSpecialise(c, m)
    \/ \E c \in Ctxs, m \in Special, ret \in OpenRets :
          DecoderSpecialise(c, m, ret)
    \/ \E c \in Ctxs : TakeField(c)
    \/ \E c \in Ctxs, p \in Params, ret \in OpenRets, w \in BOOLEAN :
          SetParameters(c, p, ret, w)

Spec == Init /\ [][Next]_vars

NextInput ==
    \/ \E n \in 1 .. MaxStreams, k \in 0 .. MaxPackets : InputWrap(n, k)
    \/ \E ret \in OpenRets : Pause(ret)
    \/ \E ret \in OpenRets : Play(ret)
    \/ \E ts \in Timestamps, start \in RangeStarts, end \in RangeEnds,
          ret \in OpenRets, pos \in 0 .. MaxPackets :
            Seek(ts, start, end, ret, pos)
    \/ Packets
    \/ IterDrop
    \/ StreamDrop
    \/ \E ret \in ReadRets, idx \in -1 .. MaxStreams - 1 : IterNext(ret, idx)
    \/ \E ret \in ReadRets, idx \in -1 .. MaxStreams - 1 : IterRetry(ret, idx)

SpecInput == Init /\ [][NextInput]_vars

\* the loop in PacketIter::next runs on until it returns
SpecInputFair ==
    SpecInput
    /\ WF_vars(\E ret \in ReadRets, idx \in -1 .. MaxStreams - 1 :
                  IterRetry(ret, idx))

NextFrame ==
    \/ \E f \in Frames, a \in Formats, n \in 1 .. MaxSamples, l \in Layouts,
          ret \in FrameRets : FrameNew(f, a, n, l, ret)
    \/ \E f \in Frames : FrameWrite(f, 1)
    \/ \E f \in Frames, g \in Frames, ra \in FrameRets, rc \in FrameRets,
          rp \in FrameRets : FrameClone(f, g, ra, rc, rp)
    \/ \E f \in Frames : FrameDrop(f)

SpecFrame == Init /\ [][NextFrame]_vars

\* one frame, made by Audio::new, re-declared by the setters and read through
\* the plane accessors
NextPlane ==
    \/ \E a \in PlaneFormats, n \in 1 .. MaxSamples, l \in PlaneLayouts,
          ret \in FrameRets : FrameNew(1, a, n, l, ret)
    \/ \E a \in PlaneFormats : FrameSetFormat(1, a)
    \/ \E n \in 0 .. MaxSamples : FrameSetSamples(1, n)
    \/ \E T \in ElemTypes, i \in PlaneIndices : FramePlane(1, T, i)
    \/ \E T \in ElemTypes, i \in PlaneIndices : FramePlaneMut(1, T, i)
    \/ \E i \in PlaneIndices : FrameData(1, i)
    \/ \E i \in PlaneIndices : FrameDataMut(1, i)
    \/ FrameDrop(1)

SpecPlane == Init /\ [][NextPlane]_vars

NextStream ==
    \/ \E ret \in SendRets, k \in 0 .. MaxBurst : SendFrame(ret, k)
    \/ \E ret \in SendRets, k \in 0 .. MaxBurst : SendEof(ret, k)
    \/ \E ret \in ReceiveRets : ReceivePacket(ret)
    \/ \E ret \in EncodeRets, got \in {0, 1} : AudioFlush(ret, got)

SpecStream == Init /\ [][NextStream]_vars

\* the drain loop `while receive_packet(..).is_ok()` of the example keeps
\* calling receive_packet until a call fails
SpecStreamFair ==
    SpecStream /\ WF_vars(\E ret \in ReceiveRets : ReceivePacket(ret))

\* the decode loop of the example: a send for each packet, each followed by
\* the drain loop, then send_eof and the last drain
NextDecode ==
    \/ \E ret \in SendRets, k \in 0 .. MaxBurst : SendPacket(ret, k)
    \/ \E ret \in SendRets, k \in 0 .. MaxBurst : DecoderSendEof(ret, k)
    \/ \E ret \in ReceiveRets : ReceiveFrame(ret)

SpecDecode == Init /\ [][NextDecode]_vars

\* open_as_with on a decoder and on an audio encoder, the native open either
\* storing the entries it left in a dictionary of its own or returning
\* before it has touched the one it was given
NextOptions ==
    \/ \E c \in Ctxs : New(c)
    \/ \E c \in Ctxs, p \in WrapParams : Wrap(c, "None", p)
    \/ \E c \in Ctxs : IntoDecoder(c)
    \/ \E c \in Ctxs : IntoEncoder(c)
    \/ \E c \in Ctxs : EncoderSpecialise(c, "Audio")
    \/ \E c \in Ctxs, k \in Codecs, o \in SUBSET Keys, ret \in OpenRets,
          r \in BOOLEAN :
          \E u \in SUBSET o : DecoderOpenAsWith(c, k, o, u, r, ret)
    \/ \E c \in Ctxs, k \in Codecs, o \in SUBSET Keys, ret \in OpenRets,
          r \in BOOLEAN :
          \E u \in SUBSET o : AudioOpenAsWith(c, k, o, u, r, ret)
    \/ \E c \in Ctxs : TakeField(c)
    \/ \E c \in Ctxs : Drop(c)

SpecOptions == Init /\ [][NextOptions]_vars

\* contexts, fresh or wrapped around a block in use, whose threading is set
\* and read
NextThreading ==
    \/ \E c \in Ctxs : New(c)
    \/ \E c \in Ctxs, p \in Params, a \in ActiveTypes : WrapActive(c, p, a)
    \/ \E c \in Ctxs, config \in Configs : SetThreading(c, config)
    \/ \E c \in Ctxs : Threading(c)
    \/ \E c \in Ctxs : Drop(c)

SpecThreading == Init /\ [][NextThreading]_vars

\* contexts made by new or wrap, cloned, and dropped in any order
NextClone ==
    \/ \E c \in Ctxs : New(c)
    \/ \E c \in Ctxs, o \in {"None", "Some"}, p \in WrapParams : Wrap(c, o, p)
    \/ DropOutside
    \/ \E c \in Ctxs, ret \in OpenRets : Clone(c, CloneSlot, ret)
    \/ \E c \in Slots : Drop(c)

SpecClone == Init /\ [][NextClone]_vars

\* handles wrapped around one owner token, each dropped by a thread of its
\* own, step by step
NextThreads ==
    \/ \E c \in Slots, p \in WrapParams : Wrap(c, "Some", p)
    \/ DropOutside
    \/ \E c \in Slots : ThreadDrop(c)
    \/ \E c \in Slots : RcRead(c)
    \/ \E c \in Slots : RcWrite(c)
    \/ \E c \in Slots : RcCheck(c)

SpecThreads == Init /\ [][NextThreads]_vars

\* an Input that is sought while decoders are made, opened and dropped
NextSeek ==
    \/ \E k \in 0 .. MaxPackets : InputWrap(1, k)
    \/ \E ts \in Timestamps, start \in RangeStarts, end \in RangeEnds,
          ret \in OpenRets, pos \in 0 .. MaxPackets :
            Seek(ts, start, end, ret, pos)
    \/ \E c \in Ctxs, p \in Params : Wrap(c, "None", p)
    \/ \E c \in Ctxs : IntoDecoder(c)
    \/ \E c \in Ctxs, ret \in OpenRets : DecoderOpen(c, ret)
    \/ \E c \in Ctxs : Drop(c)

SpecSeek == Init /\ [][NextSeek]_vars

\* ======================================================================
\* Properties
\* ======================================================================
IsPrefix(a, b) == Len(a) <= Len(b) /\ SubSeq(b, 1, Len(a)) = a

OpenAsOps == {"dec_open_as", "dec_open_as_with", "enc_open_as",
              "enc_open_as_with"}

OpenWithOps == {"dec_open_as_with", "enc_open_as_with"}

DecOpenAsOps == {"dec_open_as", "dec_open_as_with"}

EncOpenAsOps == {"enc_open_as", "enc_open_as_with"}

\* the operations C8 and C9 list, as far as they are result-returning calls
ResultOps == {"dec_open", "dec_open_as", "dec_open_as_with", "enc_open",
              "enc_open_as", "enc_open_as_with", "set_parameters", "pause",
              "play", "seek", "send_frame", "send_eof", "receive_packet"}

\* the wrappers that stand for one medium, and that medium
SpecialHolders == {"DecAudio", "DecVideo", "DecSubtitle", "EncVideo",
                   "EncAudio", "EncSubtitle", "AudioEncoder"}

SpecialOf(h) ==
    CASE h \in {"DecAudio", "EncAudio", "AudioEncoder"} -> "Audio"
      [] h \in {"DecVideo", "EncVideo"}                 -> "Video"
      [] h \in {"DecSubtitle", "EncSubtitle"}           -> "Subtitle"

\* the descriptor table holds a decoder for this codec id
HasDecoder(id) == \E k \in Codecs : k.id = id /\ k.dec

\* C1: a context without owner token (as Context::new() makes it) has its
\* block released by no drop while a wrapper holds it, and by exactly one
\* drop once none holds it any more, whatever sequence of decoder(),
\* encoder(), open*, specialisation and field moves led there
C1_ReleasedExactlyOnce ==
    \A c \in Ctxs :
        owner[c] = "None" =>
            /\ released[c] <= 1
            /\ holder[c] \in Live => (released[c] = 0 /\ block[c].alive)
            /\ holder[c] = "dropped" => (released[c] = 1 /\ ~block[c].alive)
            /\ holder[c] = "none" => released[c] = 0

\* C1 witness: a failed native open dropped the consumed wrapper of an
\* owning context, which released its block once
C1_Witness ==
    /\ last.op \in {"dec_open", "enc_open_as", "dec_special"}
    /\ last.res # "Ok"
    /\ owner[last.c] = "None"
    /\ holder[last.c] = "dropped"
    /\ released[last.c] = 1

\* C2: a context that shares an owner token never runs the release routine,
\* and the owner behind the token is not released while such a context
\* exists; a wrapped context without token has released its block once it is
\* dropped
C2_SharedNeverReleases ==
    /\ tokenReleased <= 1
    /\ tokenReleased = 1 <=> rcStrong = 0
    /\ \A c \in Ctxs :
          /\ owner[c] = "Some" => released[c] = 0
          /\ (owner[c] = "Some" /\ holder[c] \in Live) =>
                (tokenReleased = 0 /\ rcStrong >= 1 /\ block[c].alive)
          /\ (owner[c] = "None" /\ holder[c] = "dropped") => released[c] = 1

\* C2 witness: the creator gave up its token first, the sharing context was
\* dropped last, and only then the owner was released, the context itself
\* having released nothing
C2_Witness ==
    /\ last.op = "drop"
    /\ owner[last.c] = "Some"
    /\ holder[last.c] = "dropped"
    /\ released[last.c] = 0
    /\ ~tokenOutside
    /\ tokenReleased = 1

\* C3: open_as / open_as_with with a descriptor of the wrong direction return
\* DecoderNotFound (decoder) or InvalidData (audio encoder), make no native
\* open call and leave no opened wrapper behind
C3_WrongDirectionFails ==
    (last.op \in OpenAsOps /\ ~last.dirOk) =>
        /\ last.op \in DecOpenAsOps => last.res = "DecoderNotFound"
        /\ last.op \in EncOpenAsOps => last.res = "InvalidData"
        /\ last.called = 0
        /\ holder[last.c] = "dropped"

\* C3 witness: Decoder::open_as_with was given an encode-only descriptor
C3_Witness ==
    /\ last.op = "dec_open_as_with"
    /\ ~last.dirOk
    /\ last.res = "DecoderNotFound"

\* C4: no operation runs the native open on a block that is already opened
C4_NoOpenOnOpened == ~last.reopen

\* C5: while a wrapper specialised for a medium holds the context, the
\* context's medium is that medium
C5_MediumNeverChanges ==
    \A c \in Ctxs :
        holder[c] \in SpecialHolders => block[c].medium = SpecialOf(holder[c])

\* C6: Encoder::video / audio / subtitle promote an Unknown medium to the
\* requested one, return the wrapper untouched when the medium already is
\* the requested one, and otherwise fail with InvalidData writing nothing
C6_EncoderSpecialise ==
    last.op = "enc_special" =>
        /\ last.before = "Unknown" =>
              /\ last.res = "Ok" /\ last.after = last.want
              /\ holder[last.c] = EncWrapper(last.want)
              /\ block[last.c].medium = last.want
        /\ last.before = last.want =>
              /\ last.res = "Ok" /\ last.after = last.before
              /\ holder[last.c] = EncWrapper(last.want)
              /\ block[last.c].medium = last.before
        /\ last.before \notin {"Unknown", last.want} =>
              /\ last.res = "InvalidData" /\ last.after = last.before
              /\ holder[last.c] = "dropped"

\* C6 witness: a Data context was refused, its medium left as it was
C6_Witness ==
    /\ last.op = "enc_special"
    /\ last.before = "Data"
    /\ last.res = "InvalidData"
    /\ last.after = "Data"

\* C7: after open_as_with has run the native open, succeeding or failing, the
\* caller holds every option entry the native open did not consume
C7_OptionsGivenBack ==
    (last.op \in OpenWithOps /\ last.called = 1) => last.back = last.left

\* C8: an operation whose native call returned a non-negative code reports Ok
C8_NonNegativeIsOk ==
    (last.op \in ResultOps /\ last.called = 1 /\ last.ret >= 0) =>
        last.res = "Ok"

\* C9: an operation whose native call returned a negative code reports an
\* error value to its caller
C9_NegativeIsReported ==
    (last.called = 1 /\ last.ret < 0) => last.res \in Errors

\* C10: the units the drain loop hands to the caller are a prefix of the
\* units the codec produced, in order, and all of them whenever a drain ended
\* on TryAgain or end of stream
C10_UnitsExact ==
    /\ IsPrefix(pipe.received, pipe.produced)
    /\ (last.op = "receive_packet" /\ last.res \in {"TryAgain", "Eof"}) =>
          pipe.received = pipe.produced

\* C10 witness: after send_eof the drain ended on end of stream with several
\* units received, some of them flushed by the end-of-stream input
C10_Witness ==
    /\ pipe.pc = "done"
    /\ last.op = "receive_packet" /\ last.res = "Eof"
    /\ pipe.sent = MaxSend
    /\ Len(pipe.received) >= 3
    /\ pipe.received = pipe.produced

\* C11: send_eof makes one native send of a null frame and reports its
\* return as send_frame does; when it succeeded the codec is draining, a
\* receive reports end of stream only once every produced unit was received,
\* and the drain loop that follows comes to its end
C11_EofDrains ==
    /\ [](pipe.nulls <= 1)
    /\ [](last.op = "send_eof" =>
             /\ last.called = 1 /\ pipe.nulls = 1
             /\ last.res = SendFrameResult(last.ret)
             /\ last.res = "Ok" => (pipe.draining /\ pipe.pc = "drain"))
    /\ []((pipe.draining /\ last.op = "receive_packet" /\ last.res = "Eof") =>
             /\ pipe.queue = << >>
             /\ pipe.received = pipe.produced
             /\ pipe.pc = "done")
    /\ ((pipe.draining /\ pipe.pc = "drain") ~> (pipe.pc = "done"))

\* C11 witness: send_eof flushed units the codec had kept back, and the drain
\* received them all before end of stream was reported
C11_Witness ==
    /\ pipe.pc = "done" /\ pipe.nulls = 1
    /\ last.op = "receive_packet" /\ last.res = "Eof"
    /\ pipe.sent >= 1
    /\ Len(pipe.received) = MaxBurst
    /\ pipe.received = pipe.produced

\* C12: next() returns Some for the first read of the call that succeeds, all
\* reads before it in the call having failed with a code other than end of
\* file; it returns None only after a read that reported end of file; and a
\* read that failed with any other code leaves the call running, to read
\* again
C12_RetryUntilEof ==
    inp.reads >= 1 =>
        /\ inp.out = "Some" =>
              /\ inp.ret >= 0 /\ inp.item # NoItem
              /\ inp.reads < MaxReads => inp.errs = inp.reads - 1
        /\ inp.out = "None" => inp.ret = AVERROR.EOF
        /\ (inp.ret < 0 /\ inp.ret # AVERROR.EOF) =>
              (inp.pc = "loop" /\ inp.out = "Running")
        /\ inp.pc = "idle" => inp.out \in {"Some", "None", "NoCall"}

\* C12 witness: a call retried after an error and then yielded a packet
\* into a position where an earlier call had already yielded one
C12_Witness ==
    /\ inp.out = "Some" /\ inp.ret = 0
    /\ inp.reads = 2 /\ inp.errs = 1
    /\ inp.yielded = 2

\* C13: the sequence ends only on a read that reports end of file, with
\* nothing left to read, and every call of next() returns
C13_IterationTerminates ==
    /\ [](last.op = "read" /\ inp.out = "None"
            => (inp.ret = AVERROR.EOF /\ inp.left = 0))
    /\ ((inp.pc = "loop") ~> (inp.pc = "idle"))

\* C14 as stated: a call of next() that yields a packet has made exactly one
\* native read
C14_OneReadPerAdvance == inp.out = "Some" => inp.reads = 1

\* C14 amended: a call of next() that returns has made one native read for
\* every error other than end of file it met, and one more, the read whose
\* result it returns
C14_ReadsPerAdvance ==
    (inp.out \in {"Some", "None"} /\ inp.reads < MaxReads) =>
        inp.reads = inp.errs + 1

\* C14 witness: a call met one error and yielded the packet of its second
\* read
C14_Witness ==
    /\ inp.out = "Some"
    /\ inp.errs = 1 /\ inp.reads = 2
    /\ inp.yielded = 1

\* C15: the packet of a yielded pair carries an index into the stream list
\* of the source, and the Stream of the pair refers to that index
C15_StreamIndexValid ==
    inp.out = "Some" =>
        /\ inp.item.pkt \in 0 .. inp.nstreams - 1
        /\ inp.item.stream = inp.item.pkt

\* C15 witness: a packet of the second stream was yielded
C15_Witness ==
    /\ inp.out = "Some"
    /\ inp.nstreams = MaxStreams
    /\ inp.item.pkt = MaxStreams - 1
    /\ inp.item.stream = MaxStreams - 1

\* C16: no read of next() happens while a Stream yielded before is live
C16_NoStreamAcrossRead == ~inp.overlap

\* C17: Decoder::video / audio / subtitle on a context whose codec id has no
\* decoder return DecoderNotFound and make no native open; otherwise they
\* make one native open with the descriptor of that id, return the open's
\* error when it failed whatever the medium is, and compare the medium with
\* the requested one only when it succeeded
C17_DecoderSpecialise ==
    last.op = "dec_special" =>
        /\ ~HasDecoder(last.id) =>
              /\ last.res = "DecoderNotFound"
              /\ last.called = 0 /\ last.desc = "None"
              /\ holder[last.c] = "dropped"
        /\ HasDecoder(last.id) =>
              /\ last.called = 1 /\ last.desc = last.id
              /\ last.ret # 0 =>
                    (last.res = ErrorFrom(last.ret) /\ holder[last.c] = "dropped")
              /\ last.ret = 0 =>
                    /\ last.after = last.want =>
                          (last.res = "Ok" /\ holder[last.c] = DecWrapper(last.want))
                    /\ last.after # last.want =>
                          (last.res = "InvalidData" /\ holder[last.c] = "dropped")

\* C17 witness: the decoder of the context's id was found and opened the
\* context, and only then the medium turned out not to be the requested one
C17_Witness ==
    /\ last.op = "dec_special"
    /\ last.id = "H264" /\ last.desc = "H264"
    /\ last.called = 1 /\ last.ret = 0
    /\ last.want = "Audio" /\ last.after = "Video"
    /\ last.res = "InvalidData"

\* the binary shape of T is that of one sample of a plane of this format:
\* its sample type, and as many of them as the plane interleaves channels
ShapeMatches(T, format, channels) ==
    /\ format # "None"
    /\ FormatKind(format) = T.kind
    /\ T.arity = IF IsPackedFormat(format) THEN channels ELSE 1

\* the samples one plane of a buffer stores
StoredPerPlane(shape) ==
    IF IsPackedFormat(shape.format) THEN shape.samples * shape.channels
    ELSE shape.samples

\* the planes a buffer was allocated with
AllocatedPlanes(shape) ==
    IF shape = NoShape THEN 0
    ELSE IF IsPackedFormat(shape.format) THEN 1
    ELSE shape.channels

PlaneOps == {"plane", "plane_mut"}

AccessOps == {"plane", "plane_mut", "data", "data_mut"}

Panics == {"out of bounds", "unsupported type"}

\* C18: plane<T> and plane_mut<T> return a slice only when the shape of T is
\* that of the frame's format and channel count, the slice then covering the
\* samples the plane stores, and panic for every other T, format and channel
\* count
C18_PlaneTypeExact ==
    last.op \in PlaneOps =>
        LET f == fr[last.c] IN
        /\ last.view = "slice" =>
              /\ ShapeMatches(last.elem, f.format, f.channels)
              /\ last.len * last.elem.arity = StoredPerPlane(f.shape)
        /\ ~ShapeMatches(last.elem, f.format, f.channels) =>
              last.view \in Panics

\* C19: planes() is 0 without buffer, 1 for a packed format and the channel
\* count for a planar one; the four accessors panic for an index not below
\* it; and a slice is built only over a plane the buffer has
C19_PlanesGuardAccess ==
    last.op \in AccessOps =>
        LET f == fr[last.c] IN
        /\ ~f.buf => Planes(f) = 0
        /\ (f.buf /\ IsPackedFormat(f.format)) => Planes(f) = 1
        /\ (f.buf /\ ~IsPackedFormat(f.format)) => Planes(f) = f.channels
        /\ last.index >= Planes(f) => last.view = "out of bounds"
        /\ last.view = "slice" => last.index < AllocatedPlanes(f.shape)

\* C20: plane::<f32>(0) and plane_mut::<f32>(0) on a frame whose declared
\* format is 16-bit integer, packed or planar, with or without buffer and
\* with any channel count, panic and build no slice
C20_F32OnI16Panics ==
    ( /\ last.op \in PlaneOps
      /\ last.elem = [kind |-> "F32", arity |-> 1]
      /\ last.index = 0
      /\ FormatKind(fr[last.c].format) = "I16" ) =>
        (last.view \in Panics /\ last.len = 0)

\* C20 witness: plane_mut::<f32>(0) on an allocated planar 16-bit stereo
\* frame, whose plane 0 exists, failed the type test
C20_Witness ==
    /\ last.op = "plane_mut"
    /\ last.elem = [kind |-> "F32", arity |-> 1] /\ last.index = 0
    /\ fr[last.c].format = "I16Planar" /\ fr[last.c].buf
    /\ fr[last.c].channels = 2
    /\ last.view = "unsupported type"

\* C21: the clone of a frame that has a buffer has the source's format,
\* channel layout and sample count, a buffer of its own, and the source's
\* plane contents
C21_CloneEqual ==
    (last.op = "frame_clone" /\ fr[last.src].buf) =>
        LET s == fr[last.src]
            d == fr[last.c] IN
        /\ d.live /\ d.buf
        /\ d.format = s.format /\ d.layout = s.layout
        /\ d.samples = s.samples
        /\ d.shape = s.shape
        /\ d.data = s.data

\* C22: after set_parameters(p) returned Ok the context's codec id and
\* medium are those of p; a negative return of the native copy is returned
\* as its translated error, and no other return is
C22_SetParametersRoundTrip ==
    last.op = "set_parameters" =>
        /\ last.res = "Ok" =>
              /\ block[last.c].id = last.id
              /\ block[last.c].medium = last.want
        /\ last.ret < 0 => last.res = ErrorFrom(last.ret)
        /\ last.ret >= 0 => last.res = "Ok"

\* C22 witness: video parameters were copied into a context that held audio
\* parameters before, and read back
C22_Witness ==
    /\ last.op = "set_parameters" /\ last.res = "Ok"
    /\ holder[last.c] = "Decoder"
    /\ last.id = "H264" /\ last.want = "Video"
    /\ block[last.c].id = "H264" /\ block[last.c].medium = "Video"
    /\ owner[last.c] = "Some"

\* the operations of a frame that read or write a field behind its pointer
FieldUses ==
    {"format", "set_format", "channel_layout", "set_channel_layout",
     "channels", "set_channels", "rate", "set_rate", "samples", "set_samples",
     "is_planar", "is_packed", "planes", "plane", "plane_mut", "data",
     "data_mut", "clone", "clone_from", "alloc", "is_key", "is_corrupt",
     "packet", "pts", "set_pts", "timestamp", "quality", "flags", "metadata",
     "set_metadata", "side_data", "new_side_data", "remove_side_data"}

\* C23: the frame wrapping null that send_eof and flush make is created,
\* handed as a pointer to the one native send / encode call, and dropped;
\* nothing else is done with it, in particular no field access
C23_SentinelOnlyArgument ==
    last.op \in {"send_eof", "flush"} =>
        /\ last.called = 1
        /\ Len(last.uses) = 3
        /\ last.uses[1] = "wrap"
        /\ last.uses[2] = "as_ptr"
        /\ last.uses[3] = "drop"
        /\ \A i \in 1 .. Len(last.uses) : last.uses[i] \notin FieldUses

\* C23 witness: a flush through a null frame took a unit the codec had kept
\* back, after an earlier send
C23_Witness ==
    /\ last.op = "flush" /\ last.res = "Ok(true)"
    /\ last.uses = FlushSentinelUses
    /\ pipe.sent >= 1 /\ pipe.pkt >= 1

\* C24: seek(ts, range) makes one call of the native seek, with target ts,
\* lower bound range.start or the least 64-bit value, upper bound range.end
\* or the greatest; it is Ok exactly when the native result is >= 0 and the
\* translated error otherwise; and it leaves every codec context, opened
\* decoders included, every frame and every codec pipeline as it was
C24_SeekContract ==
    /\ [](last.op = "seek" =>
            /\ last.called = 1
            /\ last.args.ts = last.ts
            /\ last.args.min =
                 (IF Len(last.start) = 0 THEN I64Min ELSE last.start[1])
            /\ last.args.max =
                 (IF Len(last.end) = 0 THEN I64Max ELSE last.end[1])
            /\ (last.res = "Ok") <=> (last.ret >= 0)
            /\ last.ret < 0 => last.res = ErrorFrom(last.ret))
    /\ [][last'.op = "seek" => UNCHANGED << ctxVars, fr, pipe >>]_vars

\* C24 witness: a seek over a range with an end and no start succeeded with
\* a positive native result while an opened decoder was live
C24_Witness ==
    /\ last.op = "seek" /\ last.ret = 1 /\ last.res = "Ok"
    /\ last.start = << >> /\ last.end = << 1 >>
    /\ last.args.min = I64Min /\ last.args.max = 1
    /\ \E c \in Ctxs : holder[c] = "Opened" /\ block[c].opened

\* C25: Context::decoder() and Context::encoder() make no native call and
\* write nothing: the handle that was a Context is afterwards the unopened
\* Decoder or Encoder wrapper and no longer a Context, over the same block
\* with every field as it was, with the same owner token and strong count,
\* and nothing is released
C25_PureMove ==
    [][(last'.op \in {"decoder", "encoder"} /\ holder' # holder) =>
          LET c == last'.c IN
          /\ last'.called = 0
          /\ holder[c] = "Context"
          /\ holder'[c] = (IF last'.op = "decoder" THEN "Decoder"
                                                   ELSE "Encoder")
          /\ \A d \in Ctxs \ {c} : holder'[d] = holder[d]
          /\ block' = block /\ owner' = owner
          /\ released' = released /\ rcStrong' = rcStrong
          /\ tokenReleased' = tokenReleased
          /\ tokenOutside' = tokenOutside]_vars

\* C25 witness: decoder() was called on a context without owner token whose
\* block already had a medium and an id, and the Decoder holds that block
C25_Witness ==
    /\ last.op = "decoder"
    /\ holder[last.c] = "Decoder"
    /\ owner[last.c] = "None"
    /\ block[last.c].alive
    /\ block[last.c].medium # "Unknown" /\ block[last.c].id # "None"
    /\ released[last.c] = 0

\* C26: in the decode loop no send_packet and no send_eof is answered with
\* TryAgain
C26_SendNeverTryAgain ==
    last.op \in {"send_packet", "decoder_send_eof"} => last.res # "TryAgain"

\* C27: a PacketIter that has returned None reads again when next() is
\* called again: every step of such a call is one native read, and what the
\* call does next is decided by that read alone; it returns None exactly
\* when the read reports end of file, yields on a packet and reads again on
\* any other error
C27_NoEndLatch ==
    (last.op = "read" /\ last.prev) =>
        /\ last.called = 1
        /\ inp.reads >= 1
        /\ inp.ret = last.ret
        /\ (inp.out = "None") <=> (last.ret = AVERROR.EOF)
        /\ (inp.out = "Some") <=> (last.ret >= 0)
        /\ (inp.out = "Running") <=> (last.ret < 0 /\ last.ret # AVERROR.EOF)

\* C27 witness: after a None, next() was called again, its first read
\* failed, it read once more, and returned None on a new end of file
C27_Witness ==
    /\ last.op = "read" /\ last.prev
    /\ inp.reads = 2 /\ inp.errs = 1
    /\ last.ret = AVERROR.EOF /\ inp.out = "None"

\* C28: when open_as_with returns, on the mismatch path and on the native
\* path whatever the native open returned, the native dictionary it was
\* given has been freed exactly once, a dictionary the native open stored in
\* its place has been freed exactly once too, and no Dictionary is left
\* owning anything
C28_OptionsFreedOnce ==
    last.op \in {"dec_open_as_with", "enc_open_as_with"} =>
        /\ last.dict.freed.given = (IF last.dict.exists THEN 1 ELSE 0)
        /\ last.dict.freed.tmp = (IF last.dict.tmp THEN 1 ELSE 0)
        /\ ~last.dict.owned

\* C28 witness: the native open of an audio encoder failed after it had
\* replaced the dictionary by one holding an entry it did not use, and both
\* were freed once
C28_Witness ==
    /\ last.op = "enc_open_as_with"
    /\ last.called = 1 /\ last.ret < 0
    /\ last.dict.exists /\ last.dict.tmp
    /\ last.left # {}
    /\ last.dict.freed = [given |-> 1, tmp |-> 1]

\* C29: the clone of a context lives in a block of its own, allocated by
\* the clone, and has no owner token, whether or not its source has one;
\* the drop of the clone frees the clone's block, once, and leaves every
\* other block, every other handle and the owner token as they were
C29_CloneOwnsItself ==
    /\ [](last.op = "clone" =>
            /\ last.c # last.src
            /\ holder[last.c] = "Context" /\ owner[last.c] = "None"
            /\ block[last.c].alive /\ block[last.src].alive
            /\ released[last.c] = 0)
    /\ [](released[CloneSlot] <= 1)
    /\ [][(last'.op = "drop" /\ last'.c = CloneSlot
            /\ holder'[CloneSlot] # holder[CloneSlot]) =>
             /\ block[CloneSlot].alive /\ ~block'[CloneSlot].alive
             /\ released'[CloneSlot] = released[CloneSlot] + 1
             /\ \A c \in Ctxs :
                   /\ block'[c] = block[c] /\ released'[c] = released[c]
                   /\ holder'[c] = holder[c] /\ owner'[c] = owner[c]
             /\ rcStrong' = rcStrong /\ tokenReleased' = tokenReleased
             /\ tokenOutside' = tokenOutside]_vars

\* C29 witness: the clone of a context that shares an owner token was
\* dropped: its block is freed, and the source, its block and the token live
C29_Witness ==
    /\ last.op = "drop" /\ last.c = CloneSlot
    /\ holder[CloneSlot] = "dropped" /\ released[CloneSlot] = 1
    /\ owner[CloneSlot] = "None"
    /\ holder[1] = "Context" /\ owner[1] = "Some"
    /\ block[1].alive /\ released[1] = 0
    /\ rcStrong = 2 /\ tokenReleased = 0

\* C30: the owner behind the token is never released twice, and once every
\* handle that shares it has been dropped, each by its thread, and the
\* creator of the token has dropped its own, it has been released once
C30_OwnerReleasedOnce ==
    /\ tokenReleased <= 1
    /\ ((\A c \in Slots : holder[c] = "dropped") /\ ~tokenOutside) =>
          tokenReleased = 1

\* C31: threading() called directly after set_threading(c) returns the
\* count and the safe flag of c, and the kind that the active-thread-type
\* field held before set_threading
C31_ThreadingRoundTrip ==
    (last.op = "threading" /\ last.afterSet) =>
        /\ last.got.count = last.config.count
        /\ last.got.safe = last.config.safe
        /\ last.got.kind = TypeFrom(last.active)

====
